---- MODULE Spec2Model ----
(***************************************************************************)
(* Model of the create/validate/persist handlers of the Flask tutorial     *)
(* applications: api.py (users) and application.py / add_drinks.py         *)
(* (drinks and prices).  Each request is a process; every store round trip *)
(* of a handler is one step, so concurrent requests interleave at the      *)
(* store.  The store commits one row atomically and enforces the column    *)
(* constraints declared by the models.                                     *)
(***************************************************************************)
EXTENDS Integers, FiniteSets, Sequences, TLC

\* ------------------------------------------------------------------ bounds
NumProcs == 2
MaxUsers == 3
MaxDrinks == 3
MaxPrices == 1

Procs == 1..NumProcs

\* ------------------------------------------------------------------ values
Null == "null"

\* A request body is a function from the keys it carries to their values.
NoKeys == [k \in {} |-> Null]

OptField(key, vals) == {NoKeys} \cup {[k \in {key} |-> v] : v \in vals}

Has(body, key) == key \in DOMAIN body

Names == {"Coffee", "Tea"}
Emails == {"a@x", "b@x"}
Descs == {"hot"}

UserArgs ==
    {a @@ b : a \in OptField("name", Names \cup {Null}),
              b \in OptField("email", Emails \cup {Null})}

VARIABLES users, drinks, prices, storeUp, pc, ep, req, sess, resp

vars == <<users, drinks, prices, storeUp, pc, ep, req, sess, resp>>

\* ------------------------------------------------------------------ responses
NoReq == [none |-> TRUE]

\* resp is the exchange that completed last: the handler it came from, the
\* outcome, the HTTP status (0 outside HTTP), the exception behind it, the
\* message, the rows of the payload, the state the handler left its session
\* in and the number of rows the request made durable.
Response(from, kind, status, exc, msg, body, session, inserted) ==
    [from |-> from, kind |-> kind, status |-> status, exc |-> exc, msg |-> msg,
     body |-> body, session |-> session, inserted |-> inserted]

NoResp == Response("none", "None", 0, "None", "", {}, "clean", 0)

\* An exception that leaves the handler: the framework answers 500.
Raised(from, exc, session, inserted) ==
    Response(from, "Raised", 500, exc, "", {}, session, inserted)

\* The handler of p returns: p is free for the next request, which works on
\* a session of its own.
Finish(p) ==
    /\ pc' = [pc EXCEPT ![p] = "idle"]
    /\ ep' = [ep EXCEPT ![p] = "none"]
    /\ req' = [req EXCEPT ![p] = NoReq]
    /\ sess' = [sess EXCEPT ![p] = "clean"]

\* ------------------------------------------------------------------ store
Max(S) == CHOOSE x \in S : \A y \in S : y <= x

NextId_Stuck(ids) == IF ids = {} THEN 1 ELSE Max(ids)

\* autoincrement primary key
NextId(ids) == IF ids = {} THEN 1 ELSE Max(ids) + 1

UserIds == {u.id : u \in users}

UserConstraintOk_NameOnly(name, email) ==
    /\ name # Null
    /\ email # Null
    /\ \A u \in users : u.name # name

\* users.name and users.email: unique=True, nullable=False
UserConstraintOk(name, email) ==
    /\ name # Null
    /\ email # Null
    /\ \A u \in users : u.name # name /\ u.email # email

\* ------------------------------------------------------------------ api.py
\* marshal_with(userFields): id, name, email of each row
Marshal(rows) == {[id |-> u.id, name |-> u.name, email |-> u.email] : u \in rows}

\* Users.post up to db.session.add: reqparse aborts with 400 when a required
\* argument is absent, otherwise the row is built and added to the session.
UsersPostBegin(p, args) ==
    /\ pc[p] = "idle"
    /\ IF ~Has(args, "name") \/ ~Has(args, "email")
       THEN /\ resp' = Response("Users.post", "Rejected", 400, "None",
                                "Email cannot be blank", {}, "clean", 0)
            /\ sess' = [sess EXCEPT ![p] = "clean"]
            /\ UNCHANGED <<pc, ep, req>>
       ELSE /\ pc' = [pc EXCEPT ![p] = "commit"]
            /\ ep' = [ep EXCEPT ![p] = "Users.post"]
            /\ req' = [req EXCEPT ![p] = args]
            /\ sess' = [sess EXCEPT ![p] = "pending"]
            /\ UNCHANGED resp
    /\ UNCHANGED <<users, drinks, prices, storeUp>>

\* Users.post, db.session.commit(): no try/except, so a failed commit
\* propagates out of the handler, which never calls db.session.rollback().
UsersPostCommit(p) ==
    /\ pc[p] = "commit"
    /\ ep[p] = "Users.post"
    /\ IF ~storeUp
       THEN /\ resp' = Raised("Users.post", "OperationalError", "failed", 0)
            /\ Finish(p)
            /\ UNCHANGED users
       ELSE IF ~UserConstraintOk(req[p].name, req[p].email)
       THEN /\ resp' = Raised("Users.post", "IntegrityError", "failed", 0)
            /\ Finish(p)
            /\ UNCHANGED users
       ELSE /\ Cardinality(users) < MaxUsers
            /\ users' = users \cup {[id |-> NextId(UserIds), name |-> req[p].name,
                                     email |-> req[p].email]}
            /\ sess' = [sess EXCEPT ![p] = "committed"]
            /\ pc' = [pc EXCEPT ![p] = "query"]
            /\ UNCHANGED <<resp, ep, req>>
    /\ UNCHANGED <<drinks, prices, storeUp>>

\* Users.post, UserModel.query.all() and return users, 201
UsersPostQuery(p) ==
    /\ pc[p] = "query"
    /\ ep[p] = "Users.post"
    /\ resp' = IF storeUp
               THEN Response("Users.post", "Created", 201, "None", "", Marshal(users),
                             "clean", 1)
               ELSE Raised("Users.post", "OperationalError", "clean", 1)
    /\ Finish(p)
    /\ UNCHANGED <<users, drinks, prices, storeUp>>

\* Users.get: all rows, 200
UsersGet(p) ==
    /\ pc[p] = "idle"
    /\ sess' = [sess EXCEPT ![p] = "clean"]
    /\ resp' = IF storeUp
               THEN Response("Users.get", "Ok", 200, "None", "", Marshal(users), "clean", 0)
               ELSE Raised("Users.get", "OperationalError", "clean", 0)
    /\ UNCHANGED <<users, drinks, prices, storeUp, pc, ep, req>>

\* User.get(id): the row with that id, or abort(404)
UserGetResult(id) ==
    IF \E u \in users : u.id = id
    THEN Response("User.get", "Ok", 200, "None", "", Marshal({u \in users : u.id = id}),
                  "clean", 0)
    ELSE Response("User.get", "NotFound", 404, "None", "User not found", {}, "clean", 0)

UserGet(p, id) ==
    /\ pc[p] = "idle"
    /\ sess' = [sess EXCEPT ![p] = "clean"]
    /\ resp' = IF storeUp THEN UserGetResult(id)
               ELSE Raised("User.get", "OperationalError", "clean", 0)
    /\ UNCHANGED <<users, drinks, prices, storeUp, pc, ep, req>>

\* ------------------------------------------------------------------ application.py
DrinkIds == {d.id : d \in drinks}

PriceIds == {pr.price_id : pr \in prices}

DrinkConstraintOk_NotNullOnly(name) == name # Null

\* drink.name: unique=True, nullable=False
DrinkConstraintOk(name) ==
    /\ name # Null
    /\ \A d \in drinks : d.name # name

DrinkExists_AnyDrink(drink_id) == drinks # {}

\* Drink.query.get(drink_id)
DrinkExists(drink_id) == \E d \in drinks : d.id = drink_id

\* config.py DevelopmentConfig (the default FLASK_CONFIG): SQLite, which does
\* not enforce the ForeignKey('drink.id') of Price.drink_id at commit.
ForeignKeysEnforced == FALSE

DrinkBodies ==
    {a @@ b : a \in OptField("name", Names \cup {Null}),
              b \in OptField("description", Descs)}

\* add_drink up to db.session.add: request.json['name'] and
\* request.json['description'] raise KeyError when the key is absent.
AddDrinkBegin(p, body) ==
    /\ pc[p] = "idle"
    /\ IF ~Has(body, "name") \/ ~Has(body, "description")
       THEN /\ resp' = Raised("add_drink", "KeyError", "clean", 0)
            /\ sess' = [sess EXCEPT ![p] = "clean"]
            /\ UNCHANGED <<pc, ep, req>>
       ELSE /\ pc' = [pc EXCEPT ![p] = "commit"]
            /\ ep' = [ep EXCEPT ![p] = "add_drink"]
            /\ req' = [req EXCEPT ![p] = body]
            /\ sess' = [sess EXCEPT ![p] = "pending"]
            /\ UNCHANGED resp
    /\ UNCHANGED <<users, drinks, prices, storeUp>>

\* add_drink, db.session.commit() and return {'id': drink.id}: no try/except
\* and no status given, so success answers 200 and a failed commit propagates.
AddDrinkCommit(p) ==
    /\ pc[p] = "commit"
    /\ ep[p] = "add_drink"
    /\ IF ~storeUp
       THEN /\ resp' = Raised("add_drink", "OperationalError", "failed", 0)
            /\ UNCHANGED drinks
       ELSE IF ~DrinkConstraintOk(req[p].name)
       THEN /\ resp' = Raised("add_drink", "IntegrityError", "failed", 0)
            /\ UNCHANGED drinks
       ELSE /\ Cardinality(drinks) < MaxDrinks
            /\ drinks' = drinks \cup {[id |-> NextId(DrinkIds), name |-> req[p].name,
                                       description |-> req[p].description]}
            /\ resp' = Response("add_drink", "Created", 200, "None", "",
                                {[id |-> NextId(DrinkIds)]}, "clean", 1)
    /\ Finish(p)
    /\ UNCHANGED <<users, prices, storeUp>>

\* get_drinks: name and description of every drink
GetDrinks(p) ==
    /\ pc[p] = "idle"
    /\ sess' = [sess EXCEPT ![p] = "clean"]
    /\ resp' = IF storeUp
               THEN Response("get_drinks", "Ok", 200, "None", "",
                             {[name |-> d.name, description |-> d.description] : d \in drinks},
                             "clean", 0)
               ELSE Raised("get_drinks", "OperationalError", "clean", 0)
    /\ UNCHANGED <<users, drinks, prices, storeUp, pc, ep, req>>

\* get_drink(id): Drink.query.get_or_404(id)
GetDrinkResult(id) ==
    IF DrinkExists(id)
    THEN Response("get_drink", "Ok", 200, "None", "",
                  {[name |-> d.name, description |-> d.description] :
                      d \in {x \in drinks : x.id = id}}, "clean", 0)
    ELSE Response("get_drink", "NotFound", 404, "None", "Not Found", {}, "clean", 0)

GetDrink(p, id) ==
    /\ pc[p] = "idle"
    /\ sess' = [sess EXCEPT ![p] = "clean"]
    /\ resp' = IF storeUp THEN GetDrinkResult(id)
               ELSE Raised("get_drink", "OperationalError", "clean", 0)
    /\ UNCHANGED <<users, drinks, prices, storeUp, pc, ep, req>>

\* ------------------------------------------------------------------ add_price
AmountStrs == {"3.5", "-1.00", "abc"}
EffectiveDateStrs == {"2025-1-2", "01/02/2025"}
EndDateStrs == {"2025-01-01", "2025-01-02", "01/02/2025"}
PriceDrinkIds == {1, 2}

PriceBodies ==
    {a @@ b @@ c @@ d : a \in OptField("drink_id", PriceDrinkIds),
                        b \in OptField("price_amount", AmountStrs),
                        c \in OptField("effective_date", EffectiveDateStrs),
                        d \in OptField("end_date", EndDateStrs)}

Parsed(v) == [ok |-> TRUE, val |-> v]

\* Decimal(str(price_amount)), held in hundredths as Numeric(10, 2) stores it
ParseDecimal(s) ==
    CASE s = "3.5" -> Parsed(350)
      [] s = "-1.00" -> Parsed(0 - 100)
      [] OTHER -> [ok |-> FALSE, val |-> 0]

\* str(price.price_amount)
FormatDecimal(v) ==
    CASE v = 350 -> "3.50"
      [] v = 0 - 100 -> "-1.00"
      [] OTHER -> "?"

\* datetime.strptime(s, '%Y-%m-%d').date(): a date is held as its day
\* number; strptime accepts months and days without the leading zero.
ParseDate(s) ==
    CASE s = "2025-01-01" -> Parsed("day1")
      [] s = "2025-01-02" -> Parsed("day2")
      [] s = "2025-1-2" -> Parsed("day2")
      [] OTHER -> [ok |-> FALSE, val |-> Null]

\* the order of dates
DateOrd(d) == IF d = "day1" THEN 1 ELSE 2

\* date.isoformat()
IsoFormat(d) ==
    CASE d = "day1" -> "2025-01-01"
      [] d = "day2" -> "2025-01-02"
      [] OTHER -> "?"

\* not request.json: the empty object is falsy
IsEmptyBody(body) == DOMAIN body = {}

\* required_fields
RequiredFields == {"drink_id", "price_amount", "effective_date"}

FirstMissing_DateFirst(body) ==
    IF ~Has(body, "effective_date") THEN "effective_date"
    ELSE IF ~Has(body, "drink_id") THEN "drink_id"
    ELSE IF ~Has(body, "price_amount") THEN "price_amount"
    ELSE "none"

\* required_fields loop: the first absent field, in order
FirstMissing(body) ==
    IF ~Has(body, "drink_id") THEN "drink_id"
    ELSE IF ~Has(body, "price_amount") THEN "price_amount"
    ELSE IF ~Has(body, "effective_date") THEN "effective_date"
    ELSE "none"

\* f"Missing required field: '{field}'"
MissingFieldMessage(field) == "Missing required field: '" \o field \o "'"

\* str(e) of the decimal.InvalidOperation that Decimal(...) raises
DecimalErrorText == "[<class 'decimal.ConversionSyntax'>]"

\* str(ve) of the ValueError that strptime raises for the string s
DateErrorText(s) == "time data '" \o s \o "' does not match format '%Y-%m-%d'"

\* the date string strptime fails on: effective_date is parsed before end_date
FirstBadDate(body) ==
    IF ~ParseDate(body.effective_date).ok THEN body.effective_date ELSE body.end_date

ValidatePrice_RepeatDiffers(body) ==
    IF \/ IsEmptyBody(body)
       \/ FirstMissing(body) # "none"
       \/ ~ParseDecimal(body.price_amount).ok
       \/ ~ParseDate(body.effective_date).ok
       \/ (Has(body, "end_date") /\ ~ParseDate(body.end_date).ok)
    THEN Response("add_price", "Rejected", IF resp.status = 400 THEN 429 ELSE 400, "None",
                  "Invalid request", {}, "clean", 0)
    ELSE NoResp

\* The checks of add_price before the store is touched: the 400 response of
\* the first failing check, or NoResp when the body passes.
ValidatePrice(body) ==
    IF IsEmptyBody(body)
    THEN Response("add_price", "Rejected", 400, "None", "Request must be JSON", {}, "clean", 0)
    ELSE IF FirstMissing(body) # "none"
    THEN Response("add_price", "Rejected", 400, "None",
                  MissingFieldMessage(FirstMissing(body)), {}, "clean", 0)
    ELSE IF ~ParseDecimal(body.price_amount).ok
    THEN Response("add_price", "Rejected", 400, "InvalidOperation",
                  "Error parsing request data: " \o DecimalErrorText, {}, "clean", 0)
    ELSE IF ~ParseDate(body.effective_date).ok
            \/ (Has(body, "end_date") /\ ~ParseDate(body.end_date).ok)
    THEN Response("add_price", "Rejected", 400, "ValueError",
                  "Invalid data type or format in request: "
                      \o DateErrorText(FirstBadDate(body)), {}, "clean", 0)
    ELSE NoResp

\* The values add_price builds the Price from
ParsePrice(body) ==
    [drink_id |-> body.drink_id,
     price_amount |-> ParseDecimal(body.price_amount).val,
     effective_date |-> ParseDate(body.effective_date).val,
     end_date |-> IF Has(body, "end_date") THEN ParseDate(body.end_date).val ELSE Null]

\* Price.created_at, default=db.func.now(): the store's clock at the insert
ServerNow == "ts1"

\* datetime.isoformat()
DateTimeIsoFormat(t) ==
    CASE t = "ts1" -> "2025-01-02T10:00:00"
      [] OTHER -> "?"

\* the row the store holds once the Price is committed
PriceRow(price_id, values) ==
    [price_id |-> price_id, created_at |-> ServerNow] @@ values

\* the JSON returned with 201
PriceJson(pr) ==
    [price_id |-> pr.price_id,
     drink_id |-> pr.drink_id,
     price_amount |-> FormatDecimal(pr.price_amount),
     effective_date |-> IsoFormat(pr.effective_date),
     end_date |-> IF pr.end_date = Null THEN Null ELSE IsoFormat(pr.end_date),
     created_at |-> DateTimeIsoFormat(pr.created_at)]

\* str(e) of the exception a failing store round trip raises
StoreDiagnostics ==
    {"(sqlite3.OperationalError) database is locked",
     "(sqlite3.OperationalError) disk I/O error"}

\* except Exception as e: the 500 response, which carries str(e)
UnexpectedError(text) ==
    Response("add_price", "StoreError", 500, "OperationalError",
             "An unexpected error occurred while adding price: " \o text, {}, "clean", 0)

\* the 400 response of the IntegrityError branch, which carries str(e)
IntegrityErrorResponse(text) ==
    Response("add_price", "Rejected", 400, "IntegrityError",
             "Database integrity error: " \o text \o ". Check foreign keys or constraints.",
             {}, "clean", 0)

\* f"Drink with ID {drink_id} not found. Cannot add price."
DrinkNotFoundMessage(drink_id) ==
    "Drink with ID " \o ToString(drink_id) \o " not found. Cannot add price."

\* add_price up to the with-block: body, required fields, parsing
AddPriceBegin(p, body) ==
    /\ pc[p] = "idle"
    /\ sess' = [sess EXCEPT ![p] = "clean"]
    /\ IF ValidatePrice(body) = NoResp
       THEN /\ pc' = [pc EXCEPT ![p] = "lookup"]
            /\ ep' = [ep EXCEPT ![p] = "add_price"]
            /\ req' = [req EXCEPT ![p] = ParsePrice(body)]
            /\ UNCHANGED resp
       ELSE /\ resp' = ValidatePrice(body)
            /\ UNCHANGED <<pc, ep, req>>
    /\ UNCHANGED <<users, drinks, prices, storeUp>>

\* add_price, Drink.query.get(drink_id): 404 when absent, otherwise the Price
\* is built and added; an exception is caught, rolled back and answered 500.
AddPriceLookup(p) ==
    /\ pc[p] = "lookup"
    /\ ep[p] = "add_price"
    /\ IF ~storeUp
       THEN /\ \E text \in StoreDiagnostics : resp' = UnexpectedError(text)
            /\ Finish(p)
       ELSE IF ~DrinkExists(req[p].drink_id)
       THEN /\ resp' = Response("add_price", "NotFound", 404, "None",
                                DrinkNotFoundMessage(req[p].drink_id), {}, "clean", 0)
            /\ Finish(p)
       ELSE /\ pc' = [pc EXCEPT ![p] = "commit"]
            /\ sess' = [sess EXCEPT ![p] = "pending"]
            /\ UNCHANGED <<resp, ep, req>>
    /\ UNCHANGED <<users, drinks, prices, storeUp>>

\* add_price, db.session.commit() and the 201 response; except Exception:
\* rollback, then 400 for an IntegrityError and 500 for anything else.
AddPriceCommit(p) ==
    /\ pc[p] = "commit"
    /\ ep[p] = "add_price"
    /\ IF ~storeUp
       THEN /\ \E text \in StoreDiagnostics : resp' = UnexpectedError(text)
            /\ UNCHANGED prices
       ELSE IF ForeignKeysEnforced /\ ~DrinkExists(req[p].drink_id)
       THEN /\ resp' = IntegrityErrorResponse("(sqlite3.IntegrityError) FOREIGN KEY constraint failed")
            /\ UNCHANGED prices
       ELSE /\ Cardinality(prices) < MaxPrices
            /\ prices' = prices \cup {PriceRow(NextId(PriceIds), req[p])}
            /\ resp' = Response("add_price", "Created", 201, "None", "",
                                {PriceJson(PriceRow(NextId(PriceIds), req[p]))}, "clean", 1)
    /\ Finish(p)
    /\ UNCHANGED <<users, drinks, storeUp>>

\* add_price, the request arriving: the same handler as AddPriceBegin with the
\* arrival as a step of its own, so that request.json is held in req[p] while
\* the checks run.
ReceivePrice(p, body) ==
    /\ pc[p] = "idle"
    /\ pc' = [pc EXCEPT ![p] = "received"]
    /\ ep' = [ep EXCEPT ![p] = "add_price"]
    /\ req' = [req EXCEPT ![p] = body]
    /\ sess' = [sess EXCEPT ![p] = "clean"]
    /\ UNCHANGED <<users, drinks, prices, storeUp, resp>>

\* add_price up to the with-block, on the request held in req[p]
AddPriceChecks(p) ==
    /\ pc[p] = "received"
    /\ ep[p] = "add_price"
    /\ IF ValidatePrice(req[p]) = NoResp
       THEN /\ pc' = [pc EXCEPT ![p] = "lookup"]
            /\ req' = [req EXCEPT ![p] = ParsePrice(req[p])]
            /\ UNCHANGED <<resp, ep, sess>>
       ELSE /\ resp' = ValidatePrice(req[p])
            /\ Finish(p)
    /\ UNCHANGED <<users, drinks, prices, storeUp>>

\* jsonify({"message": ...}): the messages a response carries
ResponseMessages(r) == {r.msg}

\* ------------------------------------------------------------------ add_drinks.py
NewDrinkArgs == [name : Names \cup {Null}, description : Descs]

\* add_new_drink up to db.session.add
AddNewDrinkBegin(p, args) ==
    /\ pc[p] = "idle"
    /\ ep' = [ep EXCEPT ![p] = "add_new_drink"]
    /\ pc' = [pc EXCEPT ![p] = "commit"]
    /\ req' = [req EXCEPT ![p] = args]
    /\ sess' = [sess EXCEPT ![p] = "pending"]
    /\ UNCHANGED <<users, drinks, prices, storeUp, resp>>

AddNewDrinkCommit_Overwrite(p) ==
    /\ pc[p] = "commit"
    /\ ep[p] = "add_new_drink"
    /\ storeUp
    /\ DrinkConstraintOk(req[p].name)
    /\ drinks' = {[id |-> NextId(DrinkIds), name |-> req[p].name,
                   description |-> req[p].description]}
    /\ resp' = Response("add_new_drink", "Created", 0, "None", "", drinks', "clean", 1)
    /\ Finish(p)
    /\ UNCHANGED <<users, prices, storeUp>>

\* add_new_drink, db.session.commit(): the new Drink on success; every
\* exception is caught, the session rolled back and None returned.
AddNewDrinkCommit(p) ==
    /\ pc[p] = "commit"
    /\ ep[p] = "add_new_drink"
    /\ IF ~storeUp
       THEN /\ resp' = Response("add_new_drink", "Failed", 0, "SQLAlchemyError", "", {},
                                "clean", 0)
            /\ UNCHANGED drinks
       ELSE IF ~DrinkConstraintOk(req[p].name)
       THEN /\ resp' = Response("add_new_drink", "Failed", 0, "IntegrityError", "", {},
                                "clean", 0)
            /\ UNCHANGED drinks
       ELSE /\ Cardinality(drinks) < MaxDrinks
            /\ drinks' = drinks \cup {[id |-> NextId(DrinkIds), name |-> req[p].name,
                                       description |-> req[p].description]}
            /\ resp' = Response("add_new_drink", "Created", 0, "None", "",
                                {[id |-> NextId(DrinkIds), name |-> req[p].name,
                                  description |-> req[p].description]}, "clean", 1)
    /\ Finish(p)
    /\ UNCHANGED <<users, prices, storeUp>>

\* ------------------------------------------------------------------ environment
\* The backing store becomes unavailable, or available again.
StoreFails ==
    /\ storeUp
    /\ storeUp' = FALSE
    /\ UNCHANGED <<users, drinks, prices, pc, ep, req, sess, resp>>

StoreRecovers ==
    /\ ~storeUp
    /\ storeUp' = TRUE
    /\ UNCHANGED <<users, drinks, prices, pc, ep, req, sess, resp>>

\* ------------------------------------------------------------------ specification
Init ==
    /\ users = {}
    /\ drinks = {}
    /\ prices = {}
    /\ storeUp = TRUE
    /\ pc = [p \in Procs |-> "idle"]
    /\ ep = [p \in Procs |-> "none"]
    /\ req = [p \in Procs |-> NoReq]
    /\ sess = [p \in Procs |-> "clean"]
    /\ resp = NoResp

StoreSteps == StoreFails \/ StoreRecovers

UsersPostSteps ==
    \/ \E p \in Procs, args \in UserArgs : UsersPostBegin(p, args)
    \/ \E p \in Procs : UsersPostCommit(p)
    \/ \E p \in Procs : UsersPostQuery(p)

UsersGetSteps ==
    \/ \E p \in Procs : UsersGet(p)
    \/ \E p \in Procs, id \in 1..MaxUsers : UserGet(p, id)

AddDrinkSteps ==
    \/ \E p \in Procs, body \in DrinkBodies : AddDrinkBegin(p, body)
    \/ \E p \in Procs : AddDrinkCommit(p)

AddNewDrinkSteps ==
    \/ \E p \in Procs, args \in NewDrinkArgs : AddNewDrinkBegin(p, args)
    \/ \E p \in Procs : AddNewDrinkCommit(p)

DrinksGetSteps ==
    \/ \E p \in Procs : GetDrinks(p)
    \/ \E p \in Procs, id \in 1..MaxDrinks : GetDrink(p, id)

AddPriceSteps ==
    \/ \E p \in Procs, body \in PriceBodies : AddPriceBegin(p, body)
    \/ \E p \in Procs : AddPriceLookup(p)
    \/ \E p \in Procs : AddPriceCommit(p)

\* api.py: the users application
NextUsers == UsersPostSteps \/ UsersGetSteps \/ StoreSteps

SpecUsers == Init /\ [][NextUsers]_vars

\* application.py and add_drinks.py: the drinks
NextDrinks == AddDrinkSteps \/ AddNewDrinkSteps \/ DrinksGetSteps \/ StoreSteps

SpecDrinks == Init /\ [][NextDrinks]_vars

\* application.py: prices, with add_drinks.py filling the drink table
NextPrices == AddPriceSteps \/ AddNewDrinkSteps \/ StoreSteps

SpecPrices == Init /\ [][NextPrices]_vars

\* every create of a record with unique fields
NextCreate == UsersPostSteps \/ AddDrinkSteps \/ AddNewDrinkSteps \/ StoreSteps

SpecCreate == Init /\ [][NextCreate]_vars

\* Requests served one at a time, by one of the two applications: api.py
\* (database.db) and application.py with add_drinks.py (the configured
\* database) are separate programs.
ApiHandlers == {"Users.post", "Users.get", "User.get"}

\* the handlers that have been entered so far
Served == ({ep[p] : p \in Procs} \cup {resp.from}) \ {"none"}

ApiRun == Served \subseteq ApiHandlers

ApplicationRun == Served \cap ApiHandlers = {}

\* no request but that of p is in flight
Alone(p) == \A q \in Procs \ {p} : pc[q] = "idle"

\* p may take a step of api.py, of application.py
ApiTurn(p) == Alone(p) /\ ApiRun

ApplicationTurn(p) == Alone(p) /\ ApplicationRun

NextSerial ==
    \/ \E p \in Procs : ApiTurn(p) /\ \E args \in UserArgs : UsersPostBegin(p, args)
    \/ \E p \in Procs : ApiTurn(p) /\ UsersPostCommit(p)
    \/ \E p \in Procs : ApiTurn(p) /\ UsersPostQuery(p)
    \/ \E p \in Procs : ApiTurn(p) /\ UsersGet(p)
    \/ \E p \in Procs : ApiTurn(p) /\ \E id \in 1..MaxUsers : UserGet(p, id)
    \/ \E p \in Procs : ApplicationTurn(p) /\ \E body \in DrinkBodies : AddDrinkBegin(p, body)
    \/ \E p \in Procs : ApplicationTurn(p) /\ AddDrinkCommit(p)
    \/ \E p \in Procs : ApplicationTurn(p) /\ \E args \in NewDrinkArgs : AddNewDrinkBegin(p, args)
    \/ \E p \in Procs : ApplicationTurn(p) /\ AddNewDrinkCommit(p)
    \/ \E p \in Procs : ApplicationTurn(p) /\ GetDrinks(p)
    \/ \E p \in Procs : ApplicationTurn(p) /\ \E id \in 1..MaxDrinks : GetDrink(p, id)
    \/ \E p \in Procs : ApplicationTurn(p) /\ \E body \in PriceBodies : ReceivePrice(p, body)
    \/ \E p \in Procs : ApplicationTurn(p) /\ AddPriceChecks(p)
    \/ \E p \in Procs : ApplicationTurn(p) /\ AddPriceLookup(p)
    \/ \E p \in Procs : ApplicationTurn(p) /\ AddPriceCommit(p)
    \/ StoreFails
    \/ StoreRecovers

SpecSerial == Init /\ [][NextSerial]_vars

\* ------------------------------------------------------------------ properties
CreateEndpoints == {"Users.post", "add_drink", "add_price", "add_new_drink"}

\* p leaves the step it is at in this transition
Leaves(p, at) == pc[p] = at /\ pc'[p] # at

\* C1: a create attempt that ends in anything but success has made no row
\* durable, and a successful one has made exactly one row durable.
C1_NoPartialWrite ==
    resp.from \in CreateEndpoints =>
        resp.inserted = (IF resp.kind = "Created" THEN 1 ELSE 0)

\* C2: when a user-create commits while a concurrent user-create with the same
\* name has already committed and not yet returned, the later one answers
\* Conflict and adds no row: one Created, one Conflict, never two Created.
C2_OneCreatedOneConflict ==
    [][\A p, q \in Procs :
         (/\ p # q
          /\ ep[p] = "Users.post" /\ ep[q] = "Users.post"
          /\ pc[q] = "query"
          /\ Leaves(p, "commit")
          /\ storeUp
          /\ req[p].name # Null /\ req[p].email # Null
          /\ req[p].name = req[q].name /\ req[p].email # req[q].email)
         => (resp'.kind = "Conflict" /\ users' = users)]_vars

\* C3: no two persisted users share a name or an email, and no two persisted
\* drinks share a name.
C3_UniqueFields ==
    /\ \A u, v \in users : u # v => (u.name # v.name /\ u.email # v.email)
    /\ \A d, e \in drinks : d # e => d.name # e.name

C3_Witness ==
    /\ Cardinality(users) = 2
    /\ Cardinality(drinks) = 2
    /\ resp.exc = "IntegrityError"

\* C4: every persisted price refers to a persisted drink, whatever ran between
\* the lookup and the commit of the request that inserted it.
C4_PriceHasDrink == \A pr \in prices : \E d \in drinks : d.id = pr.drink_id

C4_Witness ==
    /\ \E pr \in prices : pr.drink_id = 2
    /\ resp.from = "add_price"
    /\ resp.kind = "Created"

\* C5: a user-create whose name or email is that of a persisted user answers
\* Conflict and leaves the number of users unchanged.
C5_DuplicateIsConflict ==
    [][\A p \in Procs :
         (/\ ep[p] = "Users.post"
          /\ Leaves(p, "commit")
          /\ storeUp
          /\ \E u \in users : u.name = req[p].name \/ u.email = req[p].email)
         => (resp'.kind = "Conflict" /\ Cardinality(users') = Cardinality(users))]_vars

C7_EndNotBeforeEffective ==
    \A pr \in prices :
        pr.end_date # Null => DateOrd(pr.end_date) >= DateOrd(pr.effective_date)

\* C8: no create handler lets an exception escape: every create attempt ends
\* in a structured result.
C8_NoEscapingException == resp.from \in CreateEndpoints => resp.kind # "Raised"

\* C9: a user-create with both fields given and a name and email no persisted
\* user has, on a store that answers, persists one row with an id no user had
\* and the submitted name and email, which User.get of that id returns; the
\* response is Created (201) and carries that row.
C9_CreateThenRetrieve ==
    [][\A p \in Procs :
         /\ (/\ ep[p] = "Users.post"
             /\ Leaves(p, "commit")
             /\ storeUp
             /\ req[p].name # Null /\ req[p].email # Null
             /\ \A u \in users : u.name # req[p].name /\ u.email # req[p].email)
            => (/\ pc'[p] = "query"
                /\ \E u \in users' :
                     /\ users' = users \cup {u}
                     /\ u.id \notin {v.id : v \in users}
                     /\ u.name = req[p].name /\ u.email = req[p].email
                     /\ UserGetResult(u.id)'.status = 200
                     /\ UserGetResult(u.id)'.body =
                            {[id |-> u.id, name |-> req[p].name, email |-> req[p].email]})
         /\ (/\ ep[p] = "Users.post"
             /\ Leaves(p, "query")
             /\ storeUp)
            => (/\ resp'.kind = "Created" /\ resp'.status = 201
                /\ \E u \in resp'.body :
                     /\ u.name = req[p].name /\ u.email = req[p].email
                     /\ UserGetResult(u.id).body = {u})]_vars

C9_Witness ==
    /\ resp.from = "Users.post"
    /\ resp.kind = "Created"
    /\ Cardinality(resp.body) = 2

\* C10: every create handler returns with its session rolled back or
\* committed: no failed, uncommitted transaction is left behind.
C10_SessionCleanOnReturn == resp.from \in CreateEndpoints => resp.session = "clean"

\* C11: a price-create request that lacks required fields is answered with
\* one message for each of the fields it lacks, not only for the first.
C11_OneMessagePerField ==
    [][\A p \in Procs :
         (/\ ep[p] = "add_price"
          /\ Leaves(p, "received")
          /\ ~IsEmptyBody(req[p]))
         => \A f \in RequiredFields :
                ~Has(req[p], f) => MissingFieldMessage(f) \in ResponseMessages(resp')]_vars

\* C12: a drink-create with a name no persisted drink has answers Created with
\* the assigned id, the name and the description; a drink-create with the name
\* of a persisted drink answers Conflict and leaves the drinks unchanged.
C12_DrinkCreatedThenConflict ==
    [][\A p \in Procs :
         (/\ ep[p] \in {"add_drink", "add_new_drink"}
          /\ Leaves(p, "commit")
          /\ storeUp
          /\ req[p].name # Null)
         => IF \E d \in drinks : d.name = req[p].name
            THEN resp'.kind = "Conflict" /\ drinks' = drinks
            ELSE /\ resp'.kind = "Created"
                 /\ \E r \in resp'.body :
                      /\ DOMAIN r = {"id", "name", "description"}
                      /\ r.id \notin {d.id : d \in drinks}
                      /\ r.name = req[p].name
                      /\ r.description = req[p].description
                      /\ drinks' = drinks \cup {r}]_vars

\* the persisted tables
Store == <<users, drinks, prices>>

C14_CreatedCarriesRecord ==
    (resp.kind = "Created" /\ resp.from \in CreateEndpoints) =>
        \E r \in resp.body :
            CASE resp.from = "Users.post" ->
                    DOMAIN r = {"id", "name", "email"} /\ r \in users
              [] resp.from \in {"add_drink", "add_new_drink"} ->
                    DOMAIN r = {"id", "name", "description"} /\ r \in drinks
              [] OTHER ->
                    /\ DOMAIN r = {"price_id", "drink_id", "price_amount", "effective_date",
                                   "end_date", "created_at"}
                    /\ \E pr \in prices : PriceJson(pr) = r

\* C15: every persisted price has a price_amount of zero or more.
C15_AmountNotNegative == \A pr \in prices : pr.price_amount >= 0

C17_NoStoreTextInResponse ==
    [][\A p \in Procs :
         (/\ ep[p] = "add_price"
          /\ Leaves(p, "lookup") \/ Leaves(p, "commit")
          /\ ~storeUp)
         => \A text \in StoreDiagnostics : resp' = UnexpectedError(text)]_vars

\* C18: the status of every create response follows the outcome: Created 201,
\* Rejected 400, Conflict 400 or 409, StoreError 500, and nothing else.
C18_StatusFollowsOutcome ==
    resp.from \in {"Users.post", "add_drink", "add_price"} =>
        /\ resp.status \in {201, 400, 409, 500}
        /\ resp.kind = "Created" => resp.status = 201
        /\ resp.kind = "Rejected" => resp.status = 400
        /\ resp.kind = "Conflict" => resp.status \in {400, 409}
        /\ resp.kind = "StoreError" => resp.status = 500

RejectedWith(p, message) ==
    /\ resp'.from = "add_price"
    /\ resp'.kind = "Rejected"
    /\ resp'.status = 400
    /\ resp'.msg = message
    /\ pc'[p] = "idle"

====
